---- MODULE Spec2Model ----
(***************************************************************************)
(* Model of LayerClient.py: the Layer platform client (request executor,   *)
(* public operations) and its entity codecs.                               *)
(*                                                                         *)
(* Python values are tagged records (field t), so that any two values can  *)
(* be compared.  A Python string is a sequence of chunks: the characters   *)
(* "/", ":" and "?" are chunks of their own, any other run of characters   *)
(* is a word with its length.  An exception raised by a function is the    *)
(* value [t |-> "raise", ...] which every caller propagates.               *)
(***************************************************************************)
EXTENDS Integers, Sequences, FiniteSets, TLC

\* ------------------------------------------------------------------ bounds
MaxPathChunks == 5
MaxParts == 2
MaxSent == 2
MaxConvs == 3
MaxAppends == 2

\* --------------------------------------------------------- program constants
UuidLen == 36

\* ------------------------------------------------------------ Python values
PyNone == [t |-> "None"]
PyBool(b) == [t |-> "bool", b |-> b]
Str(chunks) == [t |-> "str", s |-> chunks]
List(items) == [t |-> "list", items |-> items]
Dict(d) == [t |-> "dict", d |-> d]
EmptyDict == Dict([k \in {} |-> PyNone])
Raise(exc) == [t |-> "raise", exc |-> exc]
IsRaise(v) == v.t = "raise"

Chunk(k, n) == [k |-> k, n |-> n]
Slash == Chunk("/", 1)
Colon == Chunk(":", 1)
Query == Chunk("?", 1)
Lit(w, n) == Str(<<Chunk(w, n)>>)
EmptyStr == Str(<<>>)

\* Python truth value: None, "", [], {} and False are false; instances of the
\* classes of this module define neither __len__ nor __nonzero__ and are true.
Truthy(v) ==
  CASE v.t = "None" -> FALSE
    [] v.t = "bool" -> v.b
    [] v.t = "str" -> v.s # <<>>
    [] v.t = "list" -> v.items # <<>>
    [] v.t = "dict" -> DOMAIN v.d # {}
    [] OTHER -> TRUE

\* dict.get(key): the value, or None when the key is missing
Get(dd, key) == IF key \in DOMAIN dd.d THEN dd.d[key] ELSE PyNone

\* The first raise of a sequence of evaluated arguments, in evaluation order
RECURSIVE FirstRaise(_)
FirstRaise(vals) ==
  IF vals = <<>> THEN PyNone
  ELSE IF IsRaise(Head(vals)) THEN Head(vals) ELSE FirstRaise(Tail(vals))

\* ------------------------------------------------------------------ strings
RECURSIVE StrLen(_)
StrLen(chunks) ==
  IF chunks = <<>> THEN 0 ELSE Head(chunks).n + StrLen(Tail(chunks))

\* str.split(sep) for a one-character separator
RECURSIVE str_split(_, _)
str_split(chunks, sep) ==
  IF chunks = <<>> THEN << <<>> >>
  ELSE LET rest == str_split(Tail(chunks), sep)
       IN IF Head(chunks).k = sep
          THEN << <<>> >> \o rest
          ELSE << <<Head(chunks)>> \o Head(rest) >> \o Tail(rest)

\* str.find for one of a set of characters: first index, 0 when there is none
FirstIndex(chunks, ks) ==
  IF \E i \in 1..Len(chunks) : chunks[i].k \in ks
  THEN CHOOSE i \in 1..Len(chunks) :
         /\ chunks[i].k \in ks
         /\ \A j \in 1..(i - 1) : chunks[j].k \notin ks
  ELSE 0

From(chunks, i) == SubSeq(chunks, i, Len(chunks))

\* urlparse.urlparse (Python 2.7): scheme, then "//" netloc, then ?query
urlparse(chunks) ==
  LET i == FirstIndex(chunks, {":"})
      hasScheme == /\ i > 1
                   /\ \A j \in 1..(i - 1) : chunks[j].k \notin {"/", "?", ":"}
      scheme == IF hasScheme THEN SubSeq(chunks, 1, i - 1) ELSE <<>>
      url1 == IF hasScheme THEN From(chunks, i + 1) ELSE chunks
      hasNetloc == Len(url1) >= 2 /\ url1[1] = Slash /\ url1[2] = Slash
      after == From(url1, 3)
      delim == FirstIndex(after, {"/", "?"})
      netloc == IF ~hasNetloc THEN <<>>
                ELSE IF delim = 0 THEN after ELSE SubSeq(after, 1, delim - 1)
      url2 == IF ~hasNetloc THEN url1
              ELSE IF delim = 0 THEN <<>> ELSE From(after, delim)
      q == FirstIndex(url2, {"?"})
  IN [scheme |-> scheme,
      netloc |-> netloc,
      path |-> IF q = 0 THEN url2 ELSE SubSeq(url2, 1, q - 1),
      query |-> IF q = 0 THEN <<>> ELSE From(url2, q + 1)]

\* BaseLayerResponse.uuid, of an entity whose id field is ident
uuid_any3(ident) ==
  IF ident.t # "str" THEN Raise("AttributeError")
  ELSE LET path_parts == str_split(urlparse(ident.s).path, "/")
       IN IF Len(path_parts) >= 3 /\ StrLen(path_parts[3]) = UuidLen
          THEN Str(path_parts[3])
          ELSE PyNone

uuid(ident) ==
  IF ident.t # "str" THEN Raise("AttributeError")
  ELSE LET path_parts == str_split(urlparse(ident.s).path, "/")
       IN IF Len(path_parts) = 3 /\ StrLen(path_parts[3]) = UuidLen
          THEN Str(path_parts[3])
          ELSE PyNone

\* BaseLayerResponse.parse_date / dateutil.parser.parse of a valid datestamp
dateutil_parse(date) == [t |-> "datetime", of |-> date.s]
parse_date(date) == IF ~Truthy(date) THEN PyNone ELSE dateutil_parse(date)

\* ----------------------------------------------------------------- entities
Sender(id, name) == [t |-> "Sender", id |-> id, name |-> name]

MessagePart(body, mime, encoding) ==
  [t |-> "MessagePart", body |-> body, mime_type |-> mime,
   encoding |-> encoding]

PushNotification(text, sound, recipients) ==
  [t |-> "PushNotification", text |-> text, sound |-> sound,
   recipients |-> recipients]

Conversation(id, url, messages_url, created_at, participants, distinct, metadata) ==
  [t |-> "Conversation", id |-> id, url |-> url,
   messages_url |-> messages_url, created_at |-> created_at,
   participants |-> participants, distinct |-> distinct,
   metadata |-> metadata]

Message(id, url, sent_at, sender, conversation, parts, recipient_status) ==
  [t |-> "Message", id |-> id, url |-> url, sent_at |-> sent_at,
   sender |-> sender, conversation |-> conversation, parts |-> parts,
   recipient_status |-> recipient_status]

Announcement(id, url, sent_at, recipients, sender, parts) ==
  [t |-> "Announcement", id |-> id, url |-> url, sent_at |-> sent_at,
   recipients |-> recipients, sender |-> sender, parts |-> parts]

\* ----------------------------------------------------------------- encoding
\* Sender.as_dict
Sender_as_dict_both(sender) ==
  IF Truthy(sender.id) /\ Truthy(sender.name)
  THEN Dict(("user_id" :> sender.id) @@ ("name" :> sender.name))
  ELSE IF Truthy(sender.id) THEN Dict("user_id" :> sender.id)
  ELSE Dict("name" :> sender.name)

Sender_as_dict(sender) ==
  IF Truthy(sender.id)
  THEN Dict("user_id" :> sender.id)
  ELSE Dict("name" :> sender.name)

\* MessagePart.as_dict
MessagePart_as_dict(part) ==
  LET data == ("body" :> part.body) @@ ("mime_type" :> part.mime_type)
  IN IF Truthy(part.encoding)
     THEN Dict(data @@ ("encoding" :> part.encoding))
     ELSE Dict(data)

\* PushNotification.as_dict.  The loop fills recipients_dict, and the
\* assignment after the loop stores self.recipients.
PushNotification_as_dict(n) ==
  LET data0 == "text" :> n.text
      data == IF Truthy(n.sound) THEN data0 @@ ("sound" :> n.sound)
              ELSE data0
  IN IF ~Truthy(n.recipients) THEN Dict(data)
     ELSE IF n.recipients.t # "dict" THEN Raise("AttributeError")
     ELSE IF \E r \in DOMAIN n.recipients.d :
               n.recipients.d[r].t # "PushNotification"
     THEN Raise("AttributeError")
     ELSE LET recipients_dict ==
                [r \in DOMAIN n.recipients.d |->
                   Dict(("text" :> n.recipients.d[r].text)
                        @@ ("sound" :> n.recipients.d[r].sound))]
          IN Dict(data @@ ("recipients" :> n.recipients))

\* ----------------------------------------------------------------- decoding
\* Sender.from_dict
Sender_from_dict(json) ==
  IF ~Truthy(json) THEN PyNone
  ELSE IF json.t # "dict" THEN Raise("AttributeError")
  ELSE Sender(Get(json, "id"), Get(json, "name"))

\* MessagePart.from_dict
MessagePart_from_dict(dict_data) ==
  IF dict_data.t # "dict" THEN Raise("AttributeError")
  ELSE MessagePart(Get(dict_data, "body"), Get(dict_data, "mime_type"),
                   Get(dict_data, "encoding"))

\* [MessagePart.from_dict(part) for part in parts]
PartsComprehension(parts) ==
  CASE parts.t = "list" ->
         LET items == [i \in 1..Len(parts.items) |->
                         MessagePart_from_dict(parts.items[i])]
         IN IF IsRaise(FirstRaise(items)) THEN FirstRaise(items)
            ELSE List(items)
    [] parts.t \in {"str", "dict"} ->
         IF Truthy(parts) THEN Raise("AttributeError") ELSE List(<<>>)
    [] OTHER -> Raise("TypeError")

\* Conversation.from_dict
Conversation_from_dict(dict_data) ==
  IF dict_data.t # "dict" THEN Raise("AttributeError")
  ELSE LET created_at ==
             IF Truthy(Get(dict_data, "created_at"))
             THEN dateutil_parse(Get(dict_data, "created_at"))
             ELSE PyNone
       IN Conversation(Get(dict_data, "id"), Get(dict_data, "url"),
                       Get(dict_data, "messages_url"), created_at,
                       Get(dict_data, "participants"),
                       Get(dict_data, "distinct"),
                       Get(dict_data, "metadata"))

\* Message.from_dict: the arguments are evaluated left to right
Message_from_dict(dict_data) ==
  IF dict_data.t # "dict" THEN Raise("AttributeError")
  ELSE LET sent_at == parse_date(Get(dict_data, "sent_at"))
           sender == Sender_from_dict(Get(dict_data, "sender"))
           conversation ==
             Conversation_from_dict(Get(dict_data, "conversation"))
           parts == PartsComprehension(Get(dict_data, "parts"))
           failed == FirstRaise(<<sent_at, sender, conversation, parts>>)
       IN IF IsRaise(failed) THEN failed
          ELSE Message(Get(dict_data, "id"), Get(dict_data, "url"), sent_at,
                       sender, conversation, parts,
                       Get(dict_data, "recipient_status"))

\* Announcement.from_dict
Announcement_from_dict(dict_data) ==
  IF dict_data.t # "dict" THEN Raise("AttributeError")
  ELSE LET sent_at == parse_date(Get(dict_data, "sent_at"))
           sender == Sender_from_dict(Get(dict_data, "sender"))
           parts == PartsComprehension(Get(dict_data, "parts"))
           failed == FirstRaise(<<sent_at, sender, parts>>)
       IN IF IsRaise(failed) THEN failed
          ELSE Announcement(Get(dict_data, "id"), Get(dict_data, "url"),
                            sent_at, Get(dict_data, "recipients"), sender,
                            parts)

\* ------------------------------------------------------------------- client
MIME_TEXT_PLAIN == Str(<<Chunk("text", 4), Slash, Chunk("plain", 5)>>)
METHOD_GET == "GET"
METHOD_POST == "POST"
METHOD_DELETE == "DELETE"
LAYER_URI_ANNOUNCEMENTS == Lit("announcements", 13)
LAYER_URI_CONVERSATIONS == Lit("conversations", 13)
LAYER_URI_MESSAGES == Lit("messages", 8)

\* PlatformClient.__init__
PlatformClient(app_uuid, bearer_token) ==
  [app_uuid |-> app_uuid, bearer_token |-> bearer_token]

\* PlatformClient._get_layer_headers
get_layer_headers(self) ==
  Dict(("Accept" :> Lit("application/vnd.layer+json; version=1.0", 39))
       @@ ("Authorization" :>
             Str(<<Chunk("Bearer ", 7)>> \o self.bearer_token.s))
       @@ ("Content-Type" :> Lit("application/json", 16)))

\* '/'.join(suffixes)
RECURSIVE str_join(_)
str_join(suffixes) ==
  IF suffixes = <<>> THEN EmptyStr
  ELSE IF Head(suffixes).t # "str" THEN Raise("TypeError")
  ELSE IF Len(suffixes) = 1 THEN Head(suffixes)
  ELSE LET rest == str_join(Tail(suffixes))
       IN IF IsRaise(rest) THEN rest
          ELSE Str(Head(suffixes).s \o <<Slash>> \o rest.s)

\* PlatformClient._get_layer_uri
get_layer_uri(self, suffixes) ==
  LET suffix_string == IF suffixes # <<>> THEN str_join(suffixes)
                       ELSE EmptyStr
  IN IF IsRaise(suffix_string) THEN suffix_string
     ELSE Str(<<Chunk("https", 5), Colon, Slash, Slash,
                Chunk("api.layer.com", 13), Slash, Chunk("apps", 4), Slash>>
              \o self.app_uuid.s \o <<Slash>> \o suffix_string.s)

\* json.dumps: only None, booleans, strings, lists and dicts are encodable
RECURSIVE JsonSerializable(_)
JsonSerializable(v) ==
  CASE v.t \in {"None", "bool", "str"} -> TRUE
    [] v.t = "list" ->
         \A i \in 1..Len(v.items) : JsonSerializable(v.items[i])
    [] v.t = "dict" -> \A k \in DOMAIN v.d : JsonSerializable(v.d[k])
    [] OTHER -> FALSE

json_dumps(data) ==
  IF JsonSerializable(data) THEN [t |-> "json_text", of |-> data]
  ELSE Raise("TypeError")

\* requests.Response: ok is false exactly for the statuses raise_for_status
\* rejects (400..599); json() parses the body or raises ValueError
Response(status_code, body) == [status_code |-> status_code, body |-> body]
result_ok(result) ==
  ~(400 =< result.status_code /\ result.status_code < 600)
result_json(result) == result.body.json
result_text(result) == result.body.text

LayerPlatformException(message, http_code, code, error_id) ==
  [t |-> "raise", exc |-> "LayerPlatformException", message |-> message,
   http_code |-> http_code, code |-> code, error_id |-> error_id]

\* The outcome of a call: what it returns or raises, and the transport
\* exchanges (requests.request invocations) it made
Outcome(ret, wire) == [ret |-> ret, wire |-> wire]

\* PlatformClient._raw_request; result is the transport's response
raw_request(self, method, url, data, result) ==
  LET payload == IF Truthy(data) THEN json_dumps(data) ELSE PyNone
  IN IF IsRaise(payload) THEN Outcome(payload, <<>>)
     ELSE
       LET wire == << [method |-> method, url |-> url,
                       headers |-> get_layer_headers(self),
                       data |-> payload, result |-> result] >>
           error == result_json(result)
       IN IF result_ok(result) THEN Outcome(result_json(result), wire)
          ELSE IF IsRaise(error)
          THEN Outcome(LayerPlatformException(result_text(result),
                         result.status_code, PyNone, PyNone), wire)
          ELSE IF error.t # "dict"
          THEN Outcome(Raise("AttributeError"), wire)
          ELSE Outcome(LayerPlatformException(Get(error, "message"),
                         result.status_code, Get(error, "code"),
                         Get(error, "id")), wire)

\* PlatformClient.get_conversation
get_conversation(self, conversation_uuid, result) ==
  LET url == get_layer_uri(self,
                           <<LAYER_URI_CONVERSATIONS, conversation_uuid>>)
      raw == raw_request(self, METHOD_GET, url, PyNone, result)
  IN IF IsRaise(url) THEN Outcome(url, <<>>)
     ELSE IF IsRaise(raw.ret) THEN raw
     ELSE Outcome(Conversation_from_dict(raw.ret), raw.wire)

\* PlatformClient.delete_conversation
delete_conversation(self, conversation_uuid, result) ==
  LET url == get_layer_uri(self,
                           <<LAYER_URI_CONVERSATIONS, conversation_uuid>>)
      raw == raw_request(self, METHOD_DELETE, url, PyNone, result)
  IN IF IsRaise(url) THEN Outcome(url, <<>>)
     ELSE IF IsRaise(raw.ret) THEN raw
     ELSE Outcome(PyNone, raw.wire)

\* PlatformClient.create_conversation
create_conversation(self, participants, distinct, metadata, result) ==
  LET url == get_layer_uri(self, <<LAYER_URI_CONVERSATIONS>>)
      data == Dict(("participants" :> participants)
                   @@ ("distinct" :> distinct)
                   @@ ("metadata" :> metadata))
      raw == raw_request(self, METHOD_POST, url, data, result)
  IN IF IsRaise(url) THEN Outcome(url, <<>>)
     ELSE IF IsRaise(raw.ret) THEN raw
     ELSE Outcome(Conversation_from_dict(raw.ret), raw.wire)

\* [part.as_dict() for part in message_parts]
PartsAsDicts(message_parts) ==
  IF message_parts.t # "list" THEN Raise("TypeError")
  ELSE List([i \in 1..Len(message_parts.items) |->
               MessagePart_as_dict(message_parts.items[i])])

\* The body of send_message after its guard
SendMessageBody(self, conversation, sender, message_parts, notification, result) ==
  LET parts == PartsAsDicts(message_parts)
      note == IF Truthy(notification)
              THEN PushNotification_as_dict(notification) ELSE PyNone
      request_data0 == ("sender" :> Sender_as_dict(sender))
                       @@ ("parts" :> parts)
      request_data == IF Truthy(notification)
                      THEN Dict(request_data0 @@ ("notification" :> note))
                      ELSE Dict(request_data0)
      conversation_uuid == uuid(conversation.id)
      url == get_layer_uri(self, <<LAYER_URI_CONVERSATIONS,
                                   conversation_uuid, LAYER_URI_MESSAGES>>)
      raw == raw_request(self, METHOD_POST, url, request_data, result)
      failed == FirstRaise(<<parts, note, conversation_uuid, url>>)
  IN IF IsRaise(failed) THEN Outcome(failed, <<>>)
     ELSE IF IsRaise(raw.ret) THEN raw
     ELSE Outcome(Message_from_dict(raw.ret), raw.wire)

\* PlatformClient.send_message
send_message_no_sender_guard(self, conversation, sender, message_parts, notification, result) ==
  IF ~Truthy(conversation) \/ ~Truthy(message_parts)
  THEN Outcome(PyNone, <<>>)
  ELSE IF sender.t # "Sender" THEN Outcome(Raise("AttributeError"), <<>>)
  ELSE SendMessageBody(self, conversation, sender, message_parts,
                       notification, result)

send_message(self, conversation, sender, message_parts, notification, result) ==
  IF ~Truthy(conversation) \/ ~Truthy(sender) \/ ~Truthy(message_parts)
  THEN Outcome(PyNone, <<>>)
  ELSE SendMessageBody(self, conversation, sender, message_parts,
                       notification, result)

\* PlatformClient.send_announcement
send_announcement(self, sender, recipients, message_parts, notification, result) ==
  LET name == IF sender.t = "Sender" THEN sender.name
              ELSE Raise("AttributeError")
      parts == PartsAsDicts(message_parts)
      note == IF Truthy(notification)
              THEN PushNotification_as_dict(notification) ELSE PyNone
      request_data0 == ("sender" :> Dict("name" :> name))
                       @@ ("parts" :> parts)
                       @@ ("recipients" :> recipients)
      request_data == IF Truthy(notification)
                      THEN Dict(request_data0 @@ ("notification" :> note))
                      ELSE Dict(request_data0)
      url == get_layer_uri(self, <<LAYER_URI_ANNOUNCEMENTS>>)
      raw == raw_request(self, METHOD_POST, url, request_data, result)
      failed == FirstRaise(<<name, parts, note, url>>)
  IN IF IsRaise(failed) THEN Outcome(failed, <<>>)
     ELSE IF IsRaise(raw.ret) THEN raw
     ELSE Outcome(Announcement_from_dict(raw.ret), raw.wire)

\* -------------------------------------------------- Conversation.__init__
\* The default value of the participants parameter is one list object,
\* created when the def statement is executed; lists[DefaultParticipants]
\* is that object.  Omitted stands for a call without the argument.
DefaultParticipants == 1
Omitted == 0

Conversation_init(participants, fresh) ==
  [participants |-> IF participants = Omitted THEN DefaultParticipants
                    ELSE fresh,
   defaulted |-> participants = Omitted,
   added |-> <<>>]

\* -------------------------------------------------------------------- state
VARIABLES client, call, ret, wire, sent, lists, convs

vars == <<client, call, ret, wire, sent, lists, convs>>

NoCall == [op |-> "none"]
Pending == [t |-> "pending"]

\* ------------------------------------------------------------------- inputs
Word1 == Chunk("c", 1)
Word35 == Chunk("u35", 35)
Word36 == Chunk("u36", 36)
LayerId(last) ==
  Str(<<Chunk("layer", 5), Colon, Slash, Slash, Slash,
        Chunk("conversations", 13), Slash>> \o last)

ConversationUuids == {Str(<<Word36>>), Str(<<Word35>>)}

SenderIds == {PyNone, EmptyStr, Lit("u1", 2)}
SenderNames == {PyNone, Lit("Alice", 5)}
Senders == {Sender(i, n) : i \in SenderIds, n \in SenderNames}

Parts == {MessagePart(Lit("hello", 5), MIME_TEXT_PLAIN, PyNone),
          MessagePart(Lit("aGk=", 4), Lit("image/png", 9), Lit("base64", 6))}
PartLists == UNION {[1..n -> Parts] : n \in 0..MaxParts}

Sounds == {PyNone, Lit("ding", 4)}
NestedRecipients == Dict("r3" :> PushNotification(Lit("x", 1), PyNone, PyNone))
Overrides == {PushNotification(Lit("yo", 2), sd, rc) :
                sd \in Sounds, rc \in {PyNone, NestedRecipients}}
RecipientIds == {"r1", "r2"}
RecipientMaps ==
  UNION {[S -> Overrides] : S \in SUBSET RecipientIds}
Notifications ==
  {PushNotification(Lit("hi", 2), sd, PyNone) : sd \in Sounds}
  \cup {PushNotification(Lit("hi", 2), sd, Dict(m)) :
          sd \in Sounds, m \in RecipientMaps}

\* sparse JSON objects: any subset of the keys, any of them null
SenderJson == Dict(("id" :> Lit("u1", 2)) @@ ("name" :> Lit("Alice", 5)))
PartJson == Dict(("body" :> Lit("hello", 5))
                 @@ ("mime_type" :> MIME_TEXT_PLAIN)
                 @@ ("encoding" :> Lit("base64", 6)))
DateText == Lit("2014-09-15T04:44:47+00:00", 25)
ConversationJson ==
  Dict(("id" :> LayerId(<<Word36>>))
       @@ ("url" :> Lit("https://api.layer.com/apps/a/conversations/u", 44))
       @@ ("messages_url" :> Lit("https://api.layer.com/.../messages", 34))
       @@ ("created_at" :> DateText)
       @@ ("participants" :> List(<<Lit("a", 1), Lit("b", 1)>>))
       @@ ("distinct" :> PyBool(TRUE))
       @@ ("metadata" :> Dict("k" :> Lit("v", 1))))
MessageJson ==
  Dict(("id" :> LayerId(<<Word36>>))
       @@ ("url" :> Lit("https://api.layer.com/apps/a/messages/u", 39))
       @@ ("sent_at" :> DateText)
       @@ ("sender" :> SenderJson)
       @@ ("conversation" :> ConversationJson)
       @@ ("parts" :> List(<<PartJson>>))
       @@ ("recipient_status" :> Dict("a" :> Lit("sent", 4))))
AnnouncementJson ==
  Dict(("id" :> LayerId(<<Word36>>))
       @@ ("url" :> Lit("https://api.layer.com/apps/a/announcements/u", 44))
       @@ ("sent_at" :> DateText)
       @@ ("recipients" :> List(<<Lit("a", 1)>>))
       @@ ("sender" :> Dict("name" :> Lit("Alice", 5)))
       @@ ("parts" :> List(<<PartJson>>)))

FullJson(entity) ==
  CASE entity = "Sender" -> SenderJson
    [] entity = "MessagePart" -> PartJson
    [] entity = "Conversation" -> ConversationJson
    [] entity = "Message" -> MessageJson
    [] entity = "Announcement" -> AnnouncementJson

Sparse(entity, present, null) ==
  Dict([k \in present |->
          IF k \in null THEN PyNone ELSE FullJson(entity).d[k]])

\* identifiers: optional scheme, leading slashes, then up to MaxPathChunks
\* chunks
SchemePrefixes == {<<>>, <<Chunk("layer", 5), Colon>>, <<Colon>>}
LeadingSlashes == {<<>>, <<Slash>>, <<Slash, Slash>>, <<Slash, Slash, Slash>>}
PathChunks == {Slash, Query, Word1, Word35, Word36}
PathBodies == UNION {[1..n -> PathChunks] : n \in 0..MaxPathChunks}

\* transport responses
Body(text, json) == [text |-> text, json |-> json]
NotJson == Raise("ValueError")
ErrorJson == Dict(("message" :> Lit("bad", 3))
                  @@ ("code" :> Lit("invalid_id", 10))
                  @@ ("id" :> Lit("err-1", 5)))
Bodies ==
  {Body(EmptyStr, NotJson),
   Body(Lit("Internal Server Error", 21), NotJson),
   Body(Lit("null", 4), PyNone),
   Body(Lit("[]", 2), List(<<>>)),
   Body(Lit("\"oops\"", 6), Lit("oops", 4)),
   Body(Lit("{}", 2), EmptyDict),
   Body(Lit("{error}", 56), ErrorJson),
   Body(Lit("{message}", 18), Dict("message" :> Lit("bad", 3))),
   Body(Lit("{conversation}", 300), ConversationJson),
   Body(Lit("{message-entity}", 600), MessageJson),
   Body(Lit("{announcement}", 400), AnnouncementJson)}
Statuses == {100, 200, 204, 302, 422, 500}
Responses == {Response(st, b) : st \in Statuses, b \in Bodies}

ConversationObjects ==
  {Conversation(i, Lit("url", 3), PyNone, PyNone, List(<<>>), PyBool(FALSE),
                PyNone) :
     i \in {LayerId(<<Word36>>), LayerId(<<Word35>>)}}

\* --------------------------------------------------------------------- Init
Init ==
  /\ client = PlatformClient(Lit("app", 3), Lit("token", 5))
  /\ call = NoCall
  /\ ret = Pending
  /\ wire = <<>>
  /\ sent = 0
  /\ lists = << <<>> >>
  /\ convs = <<>>

\* ------------------------------------------------------ client operations
Finish(c, out) ==
  /\ call' = c
  /\ ret' = out.ret
  /\ wire' = out.wire
  /\ sent' = sent + Len(out.wire)
  /\ UNCHANGED <<client, lists, convs>>

Idle == call = NoCall /\ sent < MaxSent

GetConversation ==
  /\ Idle
  /\ \E u \in ConversationUuids, result \in Responses :
       Finish([op |-> "get_conversation", conversation_uuid |-> u],
              get_conversation(client, u, result))

DeleteConversation ==
  /\ Idle
  /\ \E u \in ConversationUuids, result \in Responses :
       Finish([op |-> "delete_conversation", conversation_uuid |-> u],
              delete_conversation(client, u, result))

CreateConversation ==
  /\ Idle
  /\ \E ps \in {List(<<>>), List(<<Lit("a", 1), Lit("b", 1)>>)},
        distinct \in {PyBool(TRUE), PyBool(FALSE)},
        metadata \in {PyNone, Dict("k" :> Lit("v", 1))},
        result \in Responses :
       Finish([op |-> "create_conversation", participants |-> ps,
               distinct |-> distinct, metadata |-> metadata],
              create_conversation(client, ps, distinct, metadata, result))

SendMessage ==
  /\ Idle
  /\ \E conversation \in ConversationObjects \cup {PyNone},
        sender \in {Sender(Lit("u1", 2), PyNone),
                    Sender(PyNone, Lit("Alice", 5)), PyNone},
        message_parts \in {List(ps) : ps \in PartLists} \cup {PyNone},
        notification \in
          {PyNone, PushNotification(Lit("hi", 2), PyNone, PyNone),
           PushNotification(Lit("hi", 2), PyNone,
             Dict("r1" :> PushNotification(Lit("yo", 2), PyNone, PyNone)))},
        result \in Responses :
       Finish([op |-> "send_message", conversation |-> conversation,
               sender |-> sender, message_parts |-> message_parts,
               notification |-> notification],
              send_message(client, conversation, sender, message_parts,
                           notification, result))

SendAnnouncement ==
  /\ Idle
  /\ \E sender \in {Sender(Lit("u1", 2), Lit("Alice", 5)),
                    Sender(PyNone, Lit("Alice", 5))},
        message_parts \in {List(ps) : ps \in PartLists},
        notification \in
          {PyNone, PushNotification(Lit("hi", 2), Lit("ding", 4), PyNone),
           PushNotification(Lit("hi", 2), PyNone,
             Dict("r1" :> PushNotification(Lit("yo", 2), PyNone, PyNone)))},
        result \in Responses :
       Finish([op |-> "send_announcement", sender |-> sender,
               recipients |-> List(<<Lit("a", 1)>>),
               message_parts |-> message_parts,
               notification |-> notification],
              send_announcement(client, sender, List(<<Lit("a", 1)>>),
                                message_parts, notification, result))

\* The caller has the outcome of the call and goes on to its next call
Resume ==
  /\ call # NoCall
  /\ call' = NoCall
  /\ ret' = Pending
  /\ wire' = <<>>
  /\ UNCHANGED <<client, sent, lists, convs>>

Next ==
  \/ GetConversation
  \/ DeleteConversation
  \/ CreateConversation
  \/ SendMessage
  \/ SendAnnouncement
  \/ Resume

Spec == Init /\ [][Next]_vars

\* ------------------------------------------------------------ codec calls
InitCodec ==
  /\ client = PlatformClient(Lit("app", 3), Lit("token", 5))
  /\ ret = Pending
  /\ wire = <<>>
  /\ sent = 0
  /\ lists = << <<>> >>
  /\ convs = <<>>
  /\ \/ \E s \in Senders : call = [op |-> "Sender.as_dict", arg |-> s]
     \/ \E p \in Parts : call = [op |-> "MessagePart.as_dict", arg |-> p]
     \/ \E n \in Notifications :
          call = [op |-> "PushNotification.as_dict", arg |-> n]
     \/ \E entity \in {"Sender", "MessagePart", "Conversation", "Message",
                       "Announcement"} :
          \E present \in SUBSET DOMAIN FullJson(entity).d :
            \E null \in SUBSET present :
              call = [op |-> "from_dict", entity |-> entity,
                      arg |-> Sparse(entity, present, null)]
     \/ \E scheme \in SchemePrefixes, lead \in LeadingSlashes,
           body \in PathBodies :
          call = [op |-> "uuid", arg |-> Str(scheme \o lead \o body)]

Apply(op, value) ==
  /\ call.op = op
  /\ ret = Pending
  /\ ret' = value
  /\ UNCHANGED <<client, call, wire, sent, lists, convs>>

EncodeSender == Apply("Sender.as_dict", Sender_as_dict(call.arg))
EncodePart == Apply("MessagePart.as_dict", MessagePart_as_dict(call.arg))
EncodeNotification ==
  Apply("PushNotification.as_dict", PushNotification_as_dict(call.arg))
DecodeSender ==
  call.op = "from_dict" /\ call.entity = "Sender"
  /\ Apply("from_dict", Sender_from_dict(call.arg))
DecodePart ==
  call.op = "from_dict" /\ call.entity = "MessagePart"
  /\ Apply("from_dict", MessagePart_from_dict(call.arg))
DecodeConversation ==
  call.op = "from_dict" /\ call.entity = "Conversation"
  /\ Apply("from_dict", Conversation_from_dict(call.arg))
DecodeMessage ==
  call.op = "from_dict" /\ call.entity = "Message"
  /\ Apply("from_dict", Message_from_dict(call.arg))
DecodeAnnouncement ==
  call.op = "from_dict" /\ call.entity = "Announcement"
  /\ Apply("from_dict", Announcement_from_dict(call.arg))
ExtractUuid == Apply("uuid", uuid(call.arg))

NextCodec ==
  \/ EncodeSender
  \/ EncodePart
  \/ EncodeNotification
  \/ DecodeSender
  \/ DecodePart
  \/ DecodeConversation
  \/ DecodeMessage
  \/ DecodeAnnouncement
  \/ ExtractUuid

SpecCodec == InitCodec /\ [][NextCodec]_vars

\* ------------------------------------------------- conversation objects
\* Conversation(id, url): constructed without a participants argument
NewConversation ==
  /\ Len(convs) < MaxConvs
  /\ convs' = Append(convs, Conversation_init(Omitted, Len(lists) + 1))
  /\ UNCHANGED <<client, call, ret, wire, sent, lists>>

\* Conversation(id, url, participants=[...]): the caller passes a new list
NewConversationWith ==
  /\ Len(convs) < MaxConvs
  /\ \E content \in {<<>>, <<"a">>} :
       /\ lists' = Append(lists, content)
       /\ convs' = Append(convs, Conversation_init(Len(lists) + 1,
                                                   Len(lists) + 1))
  /\ UNCHANGED <<client, call, ret, wire, sent>>

\* conversation.participants.append(p)
AppendParticipant ==
  /\ \E i \in 1..Len(convs), p \in {"a", "b"} :
       /\ Len(lists[convs[i].participants]) < MaxAppends
       /\ lists' = [lists EXCEPT ![convs[i].participants] = Append(@, p)]
       /\ convs' = [convs EXCEPT ![i].added = Append(@, p)]
  /\ UNCHANGED <<client, call, ret, wire, sent>>

NextConversation ==
  \/ NewConversation
  \/ NewConversationWith
  \/ AppendParticipant

SpecConversation == Init /\ [][NextConversation]_vars

\* =================================================================== claims
Returned(op) == call.op = op /\ ret # Pending
IsPlatformError(v) == IsRaise(v) /\ v.exc = "LayerPlatformException"
Is2xx(status) == 200 =< status /\ status =< 299

\* send_message was called with conversation, sender or parts missing/empty
GuardCase ==
  \/ call.conversation = PyNone
  \/ call.sender = PyNone
  \/ call.message_parts = PyNone
  \/ call.message_parts = List(<<>>)

\* C1: a send_message call whose conversation, sender or parts is None, or
\* whose parts sequence is empty, returns None, raises nothing and makes no
\* transport invocation.
C1_GuardReturnsAbsentWithoutRequest ==
  (Returned("send_message") /\ GuardCase) => (ret = PyNone /\ wire = <<>>)

C1_Witness ==
  /\ Returned("send_message")
  /\ call.sender = PyNone
  /\ call.conversation # PyNone
  /\ Truthy(call.message_parts)
  /\ ret = PyNone
  /\ wire = <<>>
  /\ sent = 1

\* The field of a parsed error body, absent when the body has no such field
ErrorField(json, key) ==
  IF json.t = "dict" /\ key \in DOMAIN json.d THEN json.d[key] ELSE PyNone

\* C2: every 4xx/5xx response makes the call fail with a PlatformError that
\* carries the status; a body that parses as JSON (any JSON value) gives
\* message, code and error id from its fields (absent when missing), a body
\* that does not parse gives the raw text and absent code and error id; no
\* other error escapes.
C2_ErrorResponseNormalised ==
  \A i \in 1..Len(wire) :
    LET result == wire[i].result
        json == result.body.json
    IN result.status_code >= 400 =>
         /\ IsPlatformError(ret)
         /\ ret.http_code = result.status_code
         /\ IsRaise(json) =>
              /\ ret.message = result.body.text
              /\ ret.code = PyNone
              /\ ret.error_id = PyNone
         /\ ~IsRaise(json) =>
              /\ ret.message = ErrorField(json, "message")
              /\ ret.code = ErrorField(json, "code")
              /\ ret.error_id = ErrorField(json, "id")

\* C3: a call that reached the transport raises a PlatformError exactly when
\* the response status is outside 200..299; no 1xx or 3xx response comes
\* back as a parsed success body.
C3_PlatformErrorIffNot2xx ==
  \A i \in 1..Len(wire) :
    IsPlatformError(ret) <=> ~Is2xx(wire[i].result.status_code)

\* C4: the encoding of a PushNotification with per-recipient overrides has
\* a 'recipients' map with the same recipient ids, each value being the
\* plain record {text, sound} of the override and nothing else.
C4_RecipientsReducedToTextAndSound ==
  (Returned("PushNotification.as_dict") /\ Truthy(call.arg.recipients)) =>
    /\ ret.t = "dict"
    /\ "recipients" \in DOMAIN ret.d
    /\ ret.d["recipients"].t = "dict"
    /\ DOMAIN ret.d["recipients"].d = DOMAIN call.arg.recipients.d
    /\ \A r \in DOMAIN call.arg.recipients.d :
         LET value == ret.d["recipients"].d[r]
             override == call.arg.recipients.d[r]
         IN /\ value.t = "dict"
            /\ DOMAIN value.d = {"text", "sound"}
            /\ value.d["text"] = override.text
            /\ value.d["sound"] = override.sound

\* C5: delete_conversation returns None for every 2xx response whatever the
\* body is (empty or not JSON included), and fails only on a non-success
\* response.
C5_DeleteDiscardsBody ==
  (Returned("delete_conversation") /\ wire # <<>>) =>
    /\ Is2xx(wire[1].result.status_code) => ret = PyNone
    /\ IsRaise(ret) => ~Is2xx(wire[1].result.status_code)

\* C6: decoding a JSON object of an entity type with any subset of its
\* fields missing or null raises nothing; the entity it returns has every
\* missing or null field absent (a Sender object without any field may
\* decode to absent as a whole).
C6_DecodingTotal ==
  Returned("from_dict") =>
    /\ ~IsRaise(ret)
    /\ ret.t = call.entity \/ ret = PyNone
    /\ ret.t = call.entity =>
         \A k \in DOMAIN FullJson(call.entity).d :
           (k \notin DOMAIN call.arg.d \/ call.arg.d[k] = PyNone)
             => ret[k] = PyNone

\* The segments of a URI path: the pieces between slashes, the slash an
\* absolute path starts with not counted
IsAbsolute(path) == path # <<>> /\ path[1] = Slash
PathSegments(path) ==
  LET rest == IF IsAbsolute(path) THEN Tail(path) ELSE path
  IN IF rest = <<>> THEN <<>> ELSE str_split(rest, "/")

\* C7 as stated: uuid() returns the final path segment exactly when the path
\* has two segments and the final one has 36 characters, and None otherwise.
C7_UuidIffTwoSegments ==
  Returned("uuid") =>
    LET segments == PathSegments(urlparse(call.arg.s).path)
    IN IF Len(segments) = 2 /\ StrLen(segments[2]) = UuidLen
       THEN ret = Str(segments[2])
       ELSE ret = PyNone

\* C7 as amended: for a path that starts with a slash uuid() returns the
\* final segment exactly when there are two segments and the final one has
\* 36 characters; for a path that does not start with a slash it does so
\* exactly when there are three segments; in every other case it returns
\* None.
C7_UuidIffThirdPiece ==
  Returned("uuid") =>
    LET path == urlparse(call.arg.s).path
        segments == PathSegments(path)
        wanted == IF IsAbsolute(path) THEN 2 ELSE 3
    IN IF Len(segments) = wanted /\ StrLen(segments[wanted]) = UuidLen
       THEN ret = Str(segments[wanted])
       ELSE ret = PyNone

C7_Witness ==
  /\ Returned("uuid")
  /\ ~IsAbsolute(urlparse(call.arg.s).path)
  /\ Len(PathSegments(urlparse(call.arg.s).path)) = 3
  /\ ret = Str(<<Word35, Word1>>)

\* C8: every public operation whose guard does not trigger invokes the
\* transport exactly once before it returns or fails.
C8_ExactlyOneRequest ==
  (/\ call.op \in {"get_conversation", "delete_conversation",
                   "create_conversation", "send_announcement",
                   "send_message"}
   /\ ~(call.op = "send_message" /\ GuardCase))
    => Len(wire) = 1

\* C9: a Sender encodes to exactly one key: 'user_id' with the identifier
\* when the identifier is present (not None, not empty), also when a name
\* is set, and 'name' with the name otherwise; never both keys.
C9_SenderEncodesOneKey ==
  Returned("Sender.as_dict") =>
    /\ ret.t = "dict"
    /\ Cardinality(DOMAIN ret.d) = 1
    /\ IF call.arg.id \notin {PyNone, EmptyStr}
       THEN DOMAIN ret.d = {"user_id"} /\ ret.d["user_id"] = call.arg.id
       ELSE DOMAIN ret.d = {"name"} /\ ret.d["name"] = call.arg.name

C9_Witness ==
  /\ Returned("Sender.as_dict")
  /\ call.arg = Sender(Lit("u1", 2), Lit("Alice", 5))
  /\ ret = Dict("user_id" :> Lit("u1", 2))

\* C10: Conversations constructed without a participants argument hold
\* distinct sequences: the participants of each are exactly those added
\* through it, whatever was added to another Conversation.
C10_DefaultParticipantsNotShared ==
  \A i \in 1..Len(convs) :
    convs[i].defaulted =>
      /\ lists[convs[i].participants] = convs[i].added
      /\ \A j \in 1..Len(convs) :
           (j # i /\ convs[j].defaulted) =>
             convs[j].participants # convs[i].participants
====
